---- MODULE Spec2Model ----
(***************************************************************************)
(* Model of montyhall.py: the Simulation class (its counters and the       *)
(* batch computed by sample) and the read-out operations of the module     *)
(* (plot_results and the probability expressions of the __main__ driver).  *)
(*                                                                         *)
(* The attributes winning_doors, win_if_staying and win_if_switching that  *)
(* __init__ creates are never read or written again; the variables of the  *)
(* same names below are the local arrays of the last sample call.          *)
(***************************************************************************)
EXTENDS Integers, Sequences, FiniteSets

\* Largest batch size a sample call is given in Spec.
MaxN == 3
\* Most negative batch size a sample call is given in Spec is -MaxNeg.
MaxNeg == 2
\* Cap on |samples| and on the wins counted in Spec (sample is not called past it).
MaxTotal == 6
\* Largest batch size in SpecBatch (one batch from a fresh Simulation).
MaxBatch == 5

VARIABLES
    samples,                \* self.samples
    num_wins_if_staying,    \* self.num_wins_if_staying
    num_wins_if_switching,  \* self.num_wins_if_switching
    winning_doors,          \* local of the last sample call (<<>> if none was built)
    switch_doors,           \* local of the last sample call
    win_if_staying,         \* local of the last sample call
    win_if_switching,       \* local of the last sample call
    op,                     \* the last operation called
    arg_n,                  \* the argument n of the last sample call
    outcome,                \* how the last operation ended: "ok" or the exception raised
    ratio                   \* <<count, samples>>: the operands of the division just computed

vars == <<samples, num_wins_if_staying, num_wins_if_switching, winning_doors,
          switch_doors, win_if_staying, win_if_switching, op, arg_n, outcome, ratio>>

counters == <<samples, num_wins_if_staying, num_wins_if_switching>>

batch == <<winning_doors, switch_doors, win_if_staying, win_if_switching>>

(***************************************************************************)
(* numpy helpers, computed elementwise as numpy computes them.             *)
(***************************************************************************)

\* np.random.randint(low, high, n): every array of n integers of [low, high).
randint_array(low, high, n) == [1..n -> low..(high - 1)]

\* np.random.randint(low, high): every single integer of [low, high).
randint_scalar(low, high) == low..(high - 1)

\* np.ones(n).astype(int)
ones(n) == [i \in 1..n |-> 1]

\* a == b on two arrays of one length
array_eq(a, b) == [i \in 1..Len(a) |-> a[i] = b[i]]

\* a == c on an array and a scalar
array_eq_scalar(a, c) == [i \in 1..Len(a) |-> a[i] = c]

\* np.where(cond, x, y) with the scalar x broadcast over the array y
np_where(cond, x, y) == [i \in 1..Len(y) |-> IF cond[i] THEN x ELSE y[i]]

\* len(a[a == True])
count_true(a) == Len(SelectSeq(a, LAMBDA b : b = TRUE))

(***************************************************************************)
(* The batch computed by sample, lines 43-46.                              *)
(***************************************************************************)

\* np.where with its two value arguments exchanged.
compute_switch_doors_swapped(wd, host) ==
    [i \in 1..Len(wd) |-> IF wd[i] = 1 THEN wd[i] ELSE host]

compute_switch_doors(wd, host) == np_where(array_eq_scalar(wd, 1), host, wd)

\* np.zeros in place of np.ones.
compute_win_if_staying_zeros(wd, n) == array_eq(wd, [i \in 1..n |-> 0])

compute_win_if_staying(wd, n) == array_eq(wd, ones(n))

compute_win_if_switching(wd, sd) == array_eq(wd, sd)

\* No division has been computed by the last operation.
NoRatio == <<>>

(***************************************************************************)
(* Simulation.__init__                                                     *)
(***************************************************************************)
Init ==
    /\ samples = 0
    /\ num_wins_if_staying = 0
    /\ num_wins_if_switching = 0
    /\ winning_doors = <<>>
    /\ switch_doors = <<>>
    /\ win_if_staying = <<>>
    /\ win_if_switching = <<>>
    /\ op = "__init__"
    /\ arg_n = 0
    /\ outcome = "ok"
    /\ ratio = NoRatio

(***************************************************************************)
(* Simulation.sample(n).  samples is increased first; a negative n then    *)
(* makes np.random.randint raise ValueError, and the call ends there.      *)
(***************************************************************************)
sample_raises(n) ==
    /\ n < 0
    /\ samples' = samples + n
    /\ outcome' = "ValueError"
    /\ UNCHANGED <<num_wins_if_staying, num_wins_if_switching>>
    /\ winning_doors' = <<>>
    /\ switch_doors' = <<>>
    /\ win_if_staying' = <<>>
    /\ win_if_switching' = <<>>

\* The win counters assigned (=) instead of increased (+=).
sample_returns_overwriting(n) ==
    /\ n >= 0
    /\ \E wd \in randint_array(1, 4, n), host \in randint_scalar(2, 4) :
          LET sd == compute_switch_doors(wd, host)
              stay == compute_win_if_staying(wd, n)
              switch == compute_win_if_switching(wd, sd)
          IN  /\ samples' = samples + n
              /\ winning_doors' = wd
              /\ switch_doors' = sd
              /\ win_if_staying' = stay
              /\ win_if_switching' = switch
              /\ num_wins_if_staying' = count_true(stay)
              /\ num_wins_if_switching' = count_true(switch)
              /\ outcome' = "ok"

sample_returns(n) ==
    /\ n >= 0
    /\ \E wd \in randint_array(1, 4, n), host \in randint_scalar(2, 4) :
          LET sd == compute_switch_doors(wd, host)
              stay == compute_win_if_staying(wd, n)
              switch == compute_win_if_switching(wd, sd)
          IN  /\ samples' = samples + n
              /\ winning_doors' = wd
              /\ switch_doors' = sd
              /\ win_if_staying' = stay
              /\ win_if_switching' = switch
              /\ num_wins_if_staying' = num_wins_if_staying + count_true(stay)
              /\ num_wins_if_switching' = num_wins_if_switching + count_true(switch)
              /\ outcome' = "ok"

sample(n) ==
    /\ op' = "sample"
    /\ arg_n' = n
    /\ ratio' = NoRatio
    /\ \/ sample_raises(n)
       \/ sample_returns(n)

(***************************************************************************)
(* Simulation.plot_results                                                 *)
(***************************************************************************)
plot_results ==
    /\ op' = "plot_results"
    /\ outcome' = IF samples > 0 THEN "ok" ELSE "Exception"
    /\ ratio' = NoRatio
    /\ UNCHANGED <<counters, batch, arg_n>>

(***************************************************************************)
(* The probability expressions of the driver, lines 69 and 70:             *)
(* sim.num_wins_if_staying / sim.samples and                               *)
(* sim.num_wins_if_switching / sim.samples.                                *)
(***************************************************************************)
num_wins(strategy) ==
    IF strategy = "stay" THEN num_wins_if_staying ELSE num_wins_if_switching

print_probability(strategy) ==
    /\ op' = "print_probability"
    /\ IF samples = 0
         THEN outcome' = "ZeroDivisionError" /\ ratio' = NoRatio
         ELSE outcome' = "ok" /\ ratio' = <<num_wins(strategy), samples>>
    /\ UNCHANGED <<counters, batch, arg_n>>

(***************************************************************************)
(* Any sequence of calls on one Simulation.                                *)
(***************************************************************************)
InRange(n) ==
    /\ samples + n <= MaxTotal
    /\ samples + n >= -MaxTotal
    /\ num_wins_if_staying + num_wins_if_switching + n <= MaxTotal

Next ==
    \/ \E n \in (-MaxNeg)..MaxN : InRange(n) /\ sample(n)
    \/ plot_results
    \/ \E strategy \in {"stay", "switch"} : print_probability(strategy)

Spec == Init /\ [][Next]_vars

(***************************************************************************)
(* One batch of up to MaxBatch trials drawn by a fresh Simulation.         *)
(***************************************************************************)
NextBatch == \E n \in 1..MaxBatch : op = "__init__" /\ sample(n)

SpecBatch == Init /\ [][NextBatch]_vars

(***************************************************************************)
(* Properties                                                              *)
(***************************************************************************)

\* The last operation was a sample call that returned normally.
Sampled == op = "sample" /\ outcome = "ok"

\* The trials of an array of booleans that are true.
TrueAt(a) == {i \in 1..Len(a) : a[i]}

\* C1: in every reachable state, failed sample calls included,
\* num_wins_if_staying + num_wins_if_switching = samples.
C1_Conservation == num_wins_if_staying + num_wins_if_switching = samples

\* C2: in every batch of n >= 1 trials, whatever the prize doors and the host
\* draw, each trial has exactly one of win_if_staying[i], win_if_switching[i] true.
C2_Partition ==
    (Sampled /\ arg_n >= 1) =>
        /\ Len(win_if_staying) = arg_n
        /\ Len(win_if_switching) = arg_n
        /\ \A i \in 1..arg_n :
              /\ win_if_staying[i] \/ win_if_switching[i]
              /\ ~(win_if_staying[i] /\ win_if_switching[i])

\* A batch with a trial whose prize is behind door 1 and a trial whose prize is
\* behind the door the host drew.
C2_Witness ==
    /\ Sampled
    /\ arg_n >= 2
    /\ \E i, j \in 1..arg_n :
          /\ winning_doors[i] = 1
          /\ winning_doors[j] = 3
          /\ switch_doors[i] = 3

\* C3: each sample call that returns adds exactly n to samples, the number of
\* true stay outcomes of its batch to num_wins_if_staying and the number of true
\* switch outcomes to num_wins_if_switching, whatever the totals were before.
C3_Accumulation ==
    [][(op' = "sample" /\ outcome' = "ok") =>
          /\ Len(win_if_staying') = arg_n'
          /\ Len(win_if_switching') = arg_n'
          /\ samples' = samples + arg_n'
          /\ num_wins_if_staying' =
                num_wins_if_staying + Cardinality(TrueAt(win_if_staying'))
          /\ num_wins_if_switching' =
                num_wins_if_switching + Cardinality(TrueAt(win_if_switching'))]_vars

\* A batch with a stay win and a switch win folded into totals that already held
\* a stay win and a switch win of earlier batches.
C3_Witness ==
    /\ Sampled
    /\ TrueAt(win_if_staying) # {}
    /\ TrueAt(win_if_switching) # {}
    /\ samples > arg_n
    /\ num_wins_if_staying > Cardinality(TrueAt(win_if_staying))
    /\ num_wins_if_switching > Cardinality(TrueAt(win_if_switching))

\* C4: a sample call with n <= 0 ends in an invalid-argument error (ValueError).
C4_NonPositiveRejected ==
    (op = "sample" /\ arg_n <= 0) => outcome = "ValueError"

\* C5: a sample call that is rejected leaves samples, num_wins_if_staying and
\* num_wins_if_switching as they were before the call.
C5_FailFast ==
    [][(op' = "sample" /\ outcome' # "ok") => UNCHANGED counters]_vars

\* C6: with samples = 0 every read-out (plot_results, the probability division)
\* fails with the explicit "no results" exception; with samples > 0 it succeeds
\* and the probability is num_wins / samples in [0, 1].
C6_NotReadyGuard ==
    (op \in {"plot_results", "print_probability"}) =>
        /\ samples = 0 => outcome = "Exception"
        /\ samples > 0 =>
              /\ outcome = "ok"
              /\ op = "print_probability" =>
                    /\ ratio[2] = samples
                    /\ 0 <= ratio[1]
                    /\ ratio[1] <= ratio[2]

\* C7: in every batch, win_if_staying[i] is true iff the prize is behind door 1
\* and win_if_switching[i] is true iff it is not, whatever the host draw; the
\* counters of a fresh Simulation after the batch count those trials.
C7_Classification ==
    Sampled =>
        /\ Len(winning_doors) = arg_n
        /\ Len(win_if_staying) = arg_n
        /\ Len(win_if_switching) = arg_n
        /\ \A i \in 1..arg_n :
              /\ win_if_staying[i] = (winning_doors[i] = 1)
              /\ win_if_switching[i] = (winning_doors[i] # 1)
        /\ samples = arg_n
        /\ num_wins_if_staying = Cardinality({i \in 1..arg_n : winning_doors[i] = 1})
        /\ num_wins_if_switching = Cardinality({i \in 1..arg_n : winning_doors[i] # 1})

\* The batch with prize doors 1, 2, 3, 1, 2.
C7_Witness ==
    /\ Sampled
    /\ winning_doors = <<1, 2, 3, 1, 2>>
    /\ win_if_staying = <<TRUE, FALSE, FALSE, TRUE, FALSE>>
    /\ win_if_switching = <<FALSE, TRUE, TRUE, FALSE, TRUE>>
    /\ num_wins_if_staying = 2
    /\ num_wins_if_switching = 3
    /\ samples = 5

\* C9: in every reachable state samples >= 0, 0 <= num_wins_if_staying <= samples
\* and 0 <= num_wins_if_switching <= samples.
C9_StateBounds ==
    /\ samples >= 0
    /\ 0 <= num_wins_if_staying /\ num_wins_if_staying <= samples
    /\ 0 <= num_wins_if_switching /\ num_wins_if_switching <= samples

\* The switch-door arrays sample can compute for the prize doors wd.
PossibleSwitchDoors(wd) ==
    {compute_switch_doors(wd, host) : host \in randint_scalar(2, 4)}

\* The switch-door arrays of a host who draws door 2 or 3 for each trial on its own.
PerTrialSwitchDoors(wd) ==
    {sd \in [1..Len(wd) -> 2..3] : \A i \in 1..Len(wd) : wd[i] # 1 => sd[i] = wd[i]}

\* C10: the switch target of a trial whose prize is behind door 1 is a door of
\* {2, 3} drawn for that trial alone, so every assignment of {2, 3} to those
\* trials is a batch sample can compute; elsewhere it is the prize door.
C10_PerTrialReveal ==
    Sampled => PossibleSwitchDoors(winning_doors) = PerTrialSwitchDoors(winning_doors)

====
